---- MODULE Spec2Model ----
(***************************************************************************)
(* Session lifecycle (AuthProvider), view selection (AppRouter) and the     *)
(* bulk selection of the admin materials page (AdminMaterialsPage) of the  *)
(* Take 2 Studio portal, src/frontend/src/App.js.                          *)
(*                                                                         *)
(* One step of the model is one run-to-completion turn of the browser's    *)
(* event loop: a handler from its entry (or from the resumption of an      *)
(* await) up to its next await on a network request.  React state setters  *)
(* called in the same turn are applied together.                           *)
(***************************************************************************)
EXTENDS Integers, Sequences, FiniteSets, TLC

\* ------------------------------------------------------------------ bounds
MaxToken == 2   \* distinct access tokens the backend hands out
MaxCalls == 2   \* login handlers that can be in flight in one page load
MaxMaterial == 2  \* materials the backend knows
MaxRequests == 1  \* requests of the materials page in flight at a time

\* --------------------------------------------------------------- constants
NoToken == 0            \* localStorage.getItem(...) === null / header deleted
NULL == "null"          \* useState(null)
Tokens == 1..MaxToken
Roles == {"client", "admin"}
CallIds == 1..MaxCalls

\* window.location.pathname, as a sequence of characters
Paths ==
  { <<"/">>,
    <<"/", "a", "d", "m">>,
    <<"/", "a", "d", "m", "i", "n">>,
    <<"/", "a", "d", "m", "i", "n", "/", "x">> }

AdminPrefix == <<"/", "a", "d", "m", "i", "n">>

\* String.prototype.startsWith
startsWith(s, prefix) ==
  /\ Len(s) >= Len(prefix)
  /\ \A i \in 1..Len(prefix) : s[i] = prefix[i]

EmptyStorage == [token |-> NoToken, userType |-> NULL]
NoUser == [role |-> NULL, tok |-> NoToken]

\* The backend's profile for the holder of token tok, as served by the
\* profile endpoint of role type.
Profile(type, tok) == [role |-> type, tok |-> tok]

IdleCall ==
  [phase |-> "idle", type |-> NULL, demo |-> FALSE, tok |-> NoToken,
   mounted |-> FALSE, ret |-> "none"]

\* the slot of a login handler that has returned keeps what login returned
Returned(ret) == [IdleCall EXCEPT !.phase = "done", !.ret = ret]

\* ------------------------------------------------- materials page: data
\* Text is a sequence of characters.
toLowerCase(s) ==
  [i \in 1..Len(s) |-> IF s[i] = "A" THEN "a" ELSE IF s[i] = "B" THEN "b" ELSE s[i]]

\* String.prototype.includes
includes(s, sub) ==
  \E i \in 0..(Len(s) - Len(sub)) : SubSeq(s, i + 1, i + Len(sub)) = sub

\* Array.prototype.includes
arrayIncludes(arr, x) == \E i \in 1..Len(arr) : arr[i] = x

MaterialIds == 1..MaxMaterial
ClientIds == {"c1", "c2"}
Statuses == {"awaiting_approval", "approved"}
Types == {"photo", "video"}
Searches == {<<>>, <<"B">>}

\* a material as GET /admin/materials returns it; the page only ever looks at
\* these fields.  Odd ids belong to client c1 and carry a "b" in their text.
Material(id, status) ==
  [id |-> id,
   client_id |-> IF id % 2 = 1 THEN "c1" ELSE "c2",
   status |-> status,
   type |-> IF id = 1 THEN "photo" ELSE "video",
   title |-> IF id = 1 THEN <<"A", "b">> ELSE <<"x">>,
   description |-> IF id % 2 = 1 /\ id # 1 THEN <<"B">> ELSE <<"a">>]

\* the lists the backend can answer with: any of its materials, each in any
\* status, in id order
MaterialLists ==
  {SelectSeq([i \in MaterialIds |-> Material(i, st[i])], LAMBDA m : m.id \in ids) :
     ids \in SUBSET MaterialIds, st \in [MaterialIds -> Statuses]}

\* useState({client: 'all', status: 'all', type: 'all', search: ''})
DefaultFilters == [client |-> "all", status |-> "all", type |-> "all", search |-> <<>>]

\* the values each filter control offers
FilterValues(key) ==
  CASE key = "client" -> {"all"} \cup ClientIds
    [] key = "status" -> {"all"} \cup Statuses
    [] key = "type" -> {"all"} \cup Types
    [] key = "search" -> Searches
FilterKeys == {"client", "status", "type", "search"}

\* a request of the page that has not been answered yet
Request(kind, action, material_ids) ==
  [kind |-> kind, action |-> action, material_ids |-> material_ids]
BulkActions == {"approve", "update_status", "delete"}

VARIABLES
  storage,      \* localStorage: the 'token' and 'userType' entries
  bearer,       \* axios.defaults.headers.common['Authorization']
  user,         \* AuthProvider state: user
  userType,     \* AuthProvider state: userType
  loading,      \* AuthProvider state: loading
  path,         \* window.location.pathname
  startup,      \* position of the mount effect: "unmounted", "fetching", "ready"
  startupTok,   \* bearer carried by the profile GET issued at startup
  startupFailed,\* the startup profile GET failed and no login returned true since
  calls,        \* login handlers of this page load, by slot
  formLoading,  \* login form state: loading
  formError,    \* login form state: error
  allMaterials,      \* AdminMaterialsPage state: allMaterials (the materials prop)
  filters,           \* AdminMaterialsPage state: filters
  selectedMaterials, \* AdminMaterialsPage state: selectedMaterials
  pageLoading,       \* AdminMaterialsPage state: loading
  requests           \* requests of the materials page in flight

sessionVars == <<storage, bearer, user, userType, loading, path, startup,
                 startupTok, startupFailed, calls, formLoading, formError>>
pageVars == <<allMaterials, filters, selectedMaterials, pageLoading, requests>>
vars == <<sessionVars, pageVars>>

\* ------------------------------------------------------------ view router
\* AppRouter, mutated: the area is chosen from the role instead of the path
AppRouter_roleFirst(pathname, ut, ld) ==
  IF ld THEN "Loading"
  ELSE IF ut = "admin" THEN "AdminDashboard"
  ELSE IF ut = "client" THEN "ClientPortal"
  ELSE IF startsWith(pathname, AdminPrefix) THEN "AdminLogin"
  ELSE "ClientLogin"

\* AppRouter, mutated: the loading check comes after the path rules
AppRouter_loadingLast(pathname, ut, ld) ==
  IF startsWith(pathname, AdminPrefix)
  THEN IF ut = NULL \/ ut # "admin"
       THEN (IF ld THEN "Loading" ELSE "AdminLogin")
       ELSE "AdminDashboard"
  ELSE IF ut = NULL \/ ut # "client"
       THEN (IF ld THEN "Loading" ELSE "ClientLogin")
       ELSE "ClientPortal"

AppRouter(pathname, ut, ld) ==
  LET isAdminPath == startsWith(pathname, AdminPrefix) IN
  IF ld THEN "Loading"
  ELSE IF isAdminPath
       THEN IF ut = NULL \/ ut # "admin" THEN "AdminLogin" ELSE "AdminDashboard"
       ELSE IF ut = NULL \/ ut # "client" THEN "ClientLogin" ELSE "ClientPortal"

View == AppRouter(path, userType, loading)

LoginViews == {"ClientLogin", "AdminLogin"}
PortalViews == {"ClientPortal", "AdminDashboard"}

\* the role a login form passes, mutated: both forms pass the default role
FormType_alwaysClient(view) == "client"

\* role a login form passes to login()
FormType(view) == IF view = "AdminLogin" THEN "admin" ELSE "client"

TypeOK ==
  /\ storage \in [token : Tokens \cup {NoToken}, userType : Roles \cup {NULL}]
  /\ bearer \in Tokens \cup {NoToken}
  /\ user \in [role : Roles \cup {NULL}, tok : Tokens \cup {NoToken}]
  /\ userType \in Roles \cup {NULL}
  /\ loading \in BOOLEAN
  /\ path \in Paths
  /\ startup \in {"unmounted", "fetching", "ready"}
  /\ startupTok \in Tokens \cup {NoToken}
  /\ startupFailed \in BOOLEAN
  /\ formLoading \in BOOLEAN
  /\ formError \in {"", "invalid", "demo"}
  /\ \A c \in CallIds :
       /\ calls[c].phase \in {"idle", "seed", "post", "get", "done"}
       /\ calls[c].ret \in {"none", "true", "false", "threw"}
  /\ allMaterials \in MaterialLists
  /\ \A key \in FilterKeys : filters[key] \in FilterValues(key)
  /\ \A i \in 1..Len(selectedMaterials) : selectedMaterials[i] \in MaterialIds
  /\ pageLoading \in BOOLEAN
  /\ Cardinality(requests) <= MaxRequests

\* ------------------------------------------------------------------- Init
\* A page load: component state at its useState initialisers, no default
\* header, and storage as some earlier page load of this program left it.
Init ==
  /\ storage \in {EmptyStorage} \cup [token : Tokens, userType : Roles]
  /\ bearer = NoToken
  /\ user = NoUser
  /\ userType = NULL
  /\ loading = TRUE
  /\ path \in Paths
  /\ startup = "unmounted"
  /\ startupTok = NoToken
  /\ startupFailed = FALSE
  /\ calls = [c \in CallIds |-> IdleCall]
  /\ formLoading = FALSE
  /\ formError = ""
  /\ allMaterials = <<>>
  /\ filters = DefaultFilters
  /\ selectedMaterials = <<>>
  /\ pageLoading = FALSE
  /\ requests = {}

\* ------------------------------------------------------------- rendering
\* React keeps a login form's local state while AppRouter keeps returning the
\* same view; when the returned view changes the old form is unmounted (the
\* setters of handlers it started become no-ops) and a later form starts from
\* its useState initialisers.
Rendered(nextView, rawCalls, rawLoading, rawError) ==
  IF nextView = View
  THEN /\ calls' = rawCalls
       /\ formLoading' = rawLoading
       /\ formError' = rawError
  ELSE /\ calls' = [c \in CallIds |-> [rawCalls[c] EXCEPT !.mounted = FALSE]]
       /\ formLoading' = FALSE
       /\ formError' = ""

FreeSlots == {c \in CallIds : calls[c].phase \in {"idle", "done"}}
Slot == CHOOSE c \in FreeSlots : \A d \in FreeSlots : c <= d

\* --------------------------------------------------------- Session Manager
\* the mount effect, mutated: the stored role is not put back in the session
Initialize_noRole ==
  /\ startup = "unmounted"
  /\ LET token == storage.token
         storedUserType == storage.userType
     IN IF token # NoToken /\ storedUserType # NULL
        THEN /\ bearer' = token
             /\ startup' = "fetching"
             /\ startupTok' = bearer'
             /\ UNCHANGED <<loading, userType>>
        ELSE /\ loading' = FALSE
             /\ startup' = "ready"
             /\ UNCHANGED <<bearer, userType, startupTok>>
  /\ UNCHANGED <<storage, user, path, startupFailed>>
  /\ Rendered(AppRouter(path, userType', loading'), calls, formLoading, formError)
  /\ UNCHANGED pageVars

\* the mount effect, mutated: the profile is fetched whatever storage holds
Initialize_alwaysFetch ==
  /\ startup = "unmounted"
  /\ bearer' = storage.token
  /\ userType' = storage.userType
  /\ startup' = "fetching"
  /\ startupTok' = bearer'
  /\ UNCHANGED <<loading, storage, user, path, startupFailed>>
  /\ Rendered(AppRouter(path, userType', loading'), calls, formLoading, formError)
  /\ UNCHANGED pageVars

\* The mount effect of AuthProvider.
Initialize ==
  /\ startup = "unmounted"
  /\ LET token == storage.token
         storedUserType == storage.userType
     IN IF token # NoToken /\ storedUserType # NULL
        THEN /\ bearer' = token
             /\ userType' = storedUserType
             /\ startup' = "fetching"
             /\ startupTok' = bearer'
             /\ UNCHANGED loading
        ELSE /\ loading' = FALSE
             /\ startup' = "ready"
             /\ UNCHANGED <<bearer, userType, startupTok>>
  /\ UNCHANGED <<storage, user, path, startupFailed>>
  /\ Rendered(AppRouter(path, userType', loading'), calls, formLoading, formError)
  /\ UNCHANGED pageVars

\* fetchUserProfile, mutated: setLoading(false) only on the success path
fetchUserProfile_noFinally(res, type, tok) ==
  /\ IF res = "ok"
     THEN /\ user' = Profile(type, tok)
          /\ loading' = FALSE
          /\ UNCHANGED <<storage, bearer>>
     ELSE /\ storage' = EmptyStorage
          /\ bearer' = NoToken
          /\ UNCHANGED <<user, loading>>
  /\ UNCHANGED userType

\* fetchUserProfile, mutated: the catch block cleans up only if the token it
\* fetched with is still the stored one
fetchUserProfile_ownTokenOnly(res, type, tok) ==
  /\ IF res = "ok"
     THEN /\ user' = Profile(type, tok)
          /\ UNCHANGED <<storage, bearer>>
     ELSE /\ IF storage.token = tok
             THEN storage' = EmptyStorage /\ bearer' = NoToken
             ELSE UNCHANGED <<storage, bearer>>
          /\ UNCHANGED user
  /\ loading' = FALSE
  /\ UNCHANGED userType

\* fetchUserProfile, mutated: the catch block removes the token key only
fetchUserProfile_keepsRoleKey(res, type, tok) ==
  /\ IF res = "ok"
     THEN /\ user' = Profile(type, tok)
          /\ UNCHANGED <<storage, bearer>>
     ELSE /\ storage' = [storage EXCEPT !.token = NoToken]
          /\ bearer' = NoToken
          /\ UNCHANGED user
  /\ loading' = FALSE
  /\ UNCHANGED userType

\* fetchUserProfile, mutated: the catch block cleans up only on an error
\* status, a transport error keeps the credentials
fetchUserProfile_by401(res, type, tok) ==
  /\ IF res = "ok"
     THEN /\ user' = Profile(type, tok)
          /\ UNCHANGED <<storage, bearer>>
     ELSE /\ IF res = "status"
             THEN storage' = EmptyStorage /\ bearer' = NoToken
             ELSE UNCHANGED <<storage, bearer>>
          /\ UNCHANGED user
  /\ loading' = FALSE
  /\ UNCHANGED userType

\* fetchUserProfile, mutated: the catch block leaves the default header
fetchUserProfile_keepsHeader(res, type, tok) ==
  /\ IF res = "ok"
     THEN /\ user' = Profile(type, tok)
          /\ UNCHANGED <<storage, bearer>>
     ELSE /\ storage' = EmptyStorage
          /\ UNCHANGED <<bearer, user>>
  /\ loading' = FALSE
  /\ UNCHANGED userType

\* fetchUserProfile from the resumption of `await axios.get(endpoint)` to its
\* return: res is the outcome of the GET ("ok", or the kind of error thrown),
\* type the role whose endpoint was asked, tok the bearer the request carried.
fetchUserProfile(res, type, tok) ==
  /\ IF res = "ok"
     THEN /\ user' = Profile(type, tok)
          /\ UNCHANGED <<storage, bearer>>
     ELSE /\ storage' = EmptyStorage
          /\ bearer' = NoToken
          /\ UNCHANGED user
  /\ loading' = FALSE
  /\ UNCHANGED userType

\* The profile GET issued by the mount effect completes.
StartupFetchDone(res) ==
  /\ startup = "fetching"
  /\ fetchUserProfile(res, userType, startupTok)
  /\ startup' = "ready"
  /\ startupFailed' = (res # "ok")
  /\ UNCHANGED <<path, startupTok>>
  /\ Rendered(AppRouter(path, userType', loading'), calls, formLoading, formError)
  /\ UNCHANGED pageVars

\* logout, mutated: the default Authorization header is left in place
logout_keepsBearer ==
  /\ storage' = EmptyStorage
  /\ UNCHANGED bearer
  /\ user' = NoUser
  /\ userType' = NULL

\* logout, mutated: only storage and the header are cleared in this turn
logout_partial ==
  /\ storage' = EmptyStorage
  /\ bearer' = NoToken
  /\ UNCHANGED <<user, userType>>

\* the session as logout sees and leaves it
Session ==
  [storage |-> storage, bearer |-> bearer, user |-> user,
   userType |-> userType, loading |-> loading]

\* logout as a function of the session, mutated: the second removeItem sits
\* in an else branch of a token test
logoutState_elseSlip(s) ==
  [s EXCEPT !.storage = IF s.storage.token # NoToken
                        THEN [s.storage EXCEPT !.token = NoToken]
                        ELSE EmptyStorage,
            !.bearer = NoToken,
            !.user = NoUser,
            !.userType = NULL]

\* logout as a function of the session: it reads nothing and overwrites four
\* fields
logoutState(s) ==
  [s EXCEPT !.storage = EmptyStorage,
            !.bearer = NoToken,
            !.user = NoUser,
            !.userType = NULL]

logout ==
  /\ storage' = logoutState(Session).storage
  /\ bearer' = logoutState(Session).bearer
  /\ user' = logoutState(Session).user
  /\ userType' = logoutState(Session).userType

\* The logout button of ClientApp / AdminDashboard is clicked.
Logout ==
  /\ View \in PortalViews
  /\ logout
  /\ UNCHANGED <<loading, path, startup, startupTok, startupFailed>>
  /\ Rendered(AppRouter(path, userType', loading'), calls, formLoading, formError)
  /\ UNCHANGED pageVars

\* ------------------------------------------------------------------ login
\* handleSubmit of ClientLogin / AdminLogin up to `await axios.post(endpoint)`
\* inside login(email, password, type).
HandleSubmit ==
  /\ View \in LoginViews
  /\ ~formLoading
  /\ FreeSlots # {}
  /\ calls' = [calls EXCEPT ![Slot] =
                 [phase |-> "post", type |-> FormType(View), demo |-> FALSE,
                  tok |-> NoToken, mounted |-> TRUE, ret |-> "none"]]
  /\ formError' = ""
  /\ formLoading' = TRUE
  /\ UNCHANGED <<storage, bearer, user, userType, loading, path, startup,
                 startupTok, startupFailed>>
  /\ UNCHANGED pageVars

\* handleDemoLogin / handleDemoAdminLogin up to `await axios.post('/seed')`.
HandleDemoLogin ==
  /\ View \in LoginViews
  /\ ~formLoading
  /\ FreeSlots # {}
  /\ calls' = [calls EXCEPT ![Slot] =
                 [phase |-> "seed", type |-> FormType(View), demo |-> TRUE,
                  tok |-> NoToken, mounted |-> TRUE, ret |-> "none"]]
  /\ formLoading' = TRUE
  /\ UNCHANGED <<storage, bearer, user, userType, loading, path, startup,
                 startupTok, startupFailed, formError>>
  /\ UNCHANGED pageVars

\* the seed request mutated: without the try/catch a failed seed ends the demo
\* handler with its error message
SeedDone_failStops(c, ok) ==
  /\ calls[c].phase = "seed"
  /\ IF ok
     THEN /\ calls' = [calls EXCEPT ![c].phase = "post"]
          /\ UNCHANGED <<formLoading, formError>>
     ELSE /\ calls' = [calls EXCEPT ![c] = Returned("false")]
          /\ formLoading' = FALSE
          /\ formError' = "demo"
  /\ UNCHANGED <<storage, bearer, user, userType, loading, path, startup,
                 startupTok, startupFailed>>
  /\ UNCHANGED pageVars

\* POST /seed completes, either way, and the demo handler enters login() up to
\* `await axios.post(endpoint)`.
SeedDone(c, ok) ==
  /\ calls[c].phase = "seed"
  /\ calls' = [calls EXCEPT ![c].phase = "post"]
  /\ UNCHANGED <<storage, bearer, user, userType, loading, path, startup,
                 startupTok, startupFailed, formLoading, formError>>
  /\ UNCHANGED pageVars

\* the tail of the form handler after `await login(...)` gave ret
ErrorAfter(c, ret) ==
  IF ret = "true" THEN formError
  ELSE IF calls[c].demo THEN "demo" ELSE "invalid"

\* the tail of the form handler, mutated: it returns right after setError
HandlerTail_noReset(c, ret, rawCalls) ==
  IF calls[c].mounted /\ ret # "threw"
  THEN Rendered(AppRouter(path, userType', loading'), rawCalls,
                IF ret = "true" THEN FALSE ELSE formLoading, ErrorAfter(c, ret))
  ELSE Rendered(AppRouter(path, userType', loading'), rawCalls, formLoading,
                formError)

HandlerTail(c, ret, rawCalls) ==
  IF calls[c].mounted /\ ret # "threw"
  THEN Rendered(AppRouter(path, userType', loading'), rawCalls, FALSE,
                ErrorAfter(c, ret))
  ELSE Rendered(AppRouter(path, userType', loading'), rawCalls, formLoading,
                formError)

\* login's success path, mutated: the header is not yet attached when the
\* profile is fetched
loginThen_attachLate(type, access_token) ==
  /\ storage' = [token |-> access_token, userType |-> type]
  /\ UNCHANGED bearer
  /\ userType' = type
  /\ UNCHANGED <<user, loading>>

\* login's success path, mutated: the session shows loading during the fetch
loginThen_setsLoading(type, access_token) ==
  /\ storage' = [token |-> access_token, userType |-> type]
  /\ bearer' = access_token
  /\ userType' = type
  /\ loading' = TRUE
  /\ UNCHANGED user

\* login, success path from the resumption of the POST to
\* `await fetchUserProfile(type)`, which issues the profile GET.
loginThen(type, access_token) ==
  /\ storage' = [token |-> access_token, userType |-> type]
  /\ bearer' = access_token
  /\ userType' = type
  /\ UNCHANGED <<user, loading>>

\* The login POST is answered with { access_token }.
LoginPostOk(c, access_token) ==
  /\ calls[c].phase = "post"
  /\ loginThen(calls[c].type, access_token)
  /\ startupFailed' = FALSE
  /\ UNCHANGED <<path, startup, startupTok>>
  /\ Rendered(AppRouter(path, userType', loading'),
              [calls EXCEPT ![c].phase = "get", ![c].tok = bearer'],
              formLoading, formError)
  /\ UNCHANGED pageVars

\* what login's catch block gives back, mutated: the error is rethrown
loginCatchValue_rethrow == "threw"

\* what login's catch block gives back
loginCatchValue == "false"

\* login's catch block, mutated: it cleans up as fetchUserProfile's does
loginCatch_clears ==
  /\ storage' = EmptyStorage
  /\ bearer' = NoToken
  /\ UNCHANGED <<user, userType, loading>>

\* login's catch block: only logs
loginCatch ==
  UNCHANGED <<storage, bearer, user, userType, loading>>

\* The login POST fails (transport or status error), or its response has no
\* data to destructure: control reaches login's catch block, login returns and
\* the form handler finishes.
LoginPostFail(c, kind) ==
  /\ calls[c].phase = "post"
  /\ loginCatch
  /\ UNCHANGED <<path, startup, startupTok, startupFailed>>
  /\ HandlerTail(c, loginCatchValue,
                 [calls EXCEPT ![c] = Returned(loginCatchValue)])
  /\ UNCHANGED pageVars

\* The profile GET issued by login completes: fetchUserProfile settles, login
\* returns true and the form handler finishes.
LoginFetchDone(c, res) ==
  /\ calls[c].phase = "get"
  /\ fetchUserProfile(res, calls[c].type, calls[c].tok)
  /\ UNCHANGED <<path, startup, startupTok, startupFailed>>
  /\ HandlerTail(c, "true",
                 [calls EXCEPT ![c] = Returned("true")])
  /\ UNCHANGED pageVars

\* ------------------------------------------------------------- navigation
\* A full page load of pathname p (address bar, reload, or the plain
\* <a href="/admin"> link of ClientLogin): the script starts over, requests of
\* the old page are abandoned, localStorage survives.
PageLoad(p) ==
  /\ path' = p
  /\ bearer' = NoToken
  /\ user' = NoUser
  /\ userType' = NULL
  /\ loading' = TRUE
  /\ startup' = "unmounted"
  /\ startupTok' = NoToken
  /\ startupFailed' = FALSE
  /\ calls' = [c \in CallIds |-> IdleCall]
  /\ formLoading' = FALSE
  /\ formError' = ""
  /\ UNCHANGED storage
  /\ UNCHANGED pageVars

\* ways the login POST ends in login's catch block: no response, an error
\* status (401, 500), or a response without data to destructure
FailKinds == {"network", "status", "nodata"}

\* ways the profile GET ends in fetchUserProfile's catch block
GetFailKinds == {"network", "status"}
GetResults == {"ok"} \cup GetFailKinds

Next ==
  \/ Initialize
  \/ \E res \in GetResults : StartupFetchDone(res)
  \/ Logout
  \/ HandleSubmit
  \/ HandleDemoLogin
  \/ \E c \in CallIds, ok \in BOOLEAN : SeedDone(c, ok)
  \/ \E c \in CallIds, t \in Tokens : LoginPostOk(c, t)
  \/ \E c \in CallIds, k \in FailKinds : LoginPostFail(c, k)
  \/ \E c \in CallIds, res \in GetResults : LoginFetchDone(c, res)
  \/ \E p \in Paths : PageLoad(p)

Spec == Init /\ [][Next]_vars

\* Every issued request is eventually answered, and the mount effect runs
\* after the first render.
LiveSpec ==
  /\ Spec
  /\ WF_vars(Initialize)
  /\ SF_vars(\E res \in GetResults : StartupFetchDone(res))
  /\ \A c \in CallIds :
       /\ WF_vars(\E ok \in BOOLEAN : SeedDone(c, ok))
       /\ WF_vars(\E res \in GetResults : LoginFetchDone(c, res))

\* ------------------------------------------------------ AdminMaterialsPage
\* The page as AdminDashboard renders it for currentPage = 'materials'.  Its
\* allMaterials state follows the materials prop (the sync effect runs with
\* the render that delivers the prop), so one variable stands for both.  What
\* the backend does with a write is not part of this program: a refresh can
\* be answered with any list.
PageShown == View = "AdminDashboard"

\* one material against the four filters
passesFilters(material) ==
  IF filters.client # "all" /\ material.client_id # filters.client THEN FALSE
  ELSE IF filters.status # "all" /\ material.status # filters.status THEN FALSE
  ELSE IF filters.type # "all" /\ material.type # filters.type THEN FALSE
  ELSE IF /\ filters.search # <<>>
          /\ ~includes(toLowerCase(material.title), toLowerCase(filters.search))
          /\ ~includes(toLowerCase(material.description),
                       toLowerCase(filters.search))
       THEN FALSE
  ELSE TRUE

filteredMaterials == SelectSeq(allMaterials, passesFilters)

\* filteredMaterials.map(m => m.id)
filteredIds == [i \in 1..Len(filteredMaterials) |-> filteredMaterials[i].id]

\* the checked attribute of the select-all checkbox
selectAllChecked ==
  Len(selectedMaterials) = Len(filteredMaterials) /\ Len(filteredMaterials) > 0

HandleFilterChange(key, value) ==
  /\ PageShown
  /\ filters' = [filters EXCEPT ![key] = value]
  /\ UNCHANGED <<allMaterials, selectedMaterials, pageLoading, requests>>
  /\ UNCHANGED sessionVars

\* the checkbox of a listed material; the list is replaced by a spinner while
\* the page is loading
HandleMaterialSelect(materialId) ==
  /\ PageShown
  /\ ~pageLoading
  /\ arrayIncludes(filteredIds, materialId)
  /\ selectedMaterials' =
       IF arrayIncludes(selectedMaterials, materialId)
       THEN SelectSeq(selectedMaterials, LAMBDA id : id # materialId)
       ELSE Append(selectedMaterials, materialId)
  /\ UNCHANGED <<allMaterials, filters, pageLoading, requests>>
  /\ UNCHANGED sessionVars

HandleSelectAll ==
  /\ PageShown
  /\ selectedMaterials' =
       IF Len(selectedMaterials) = Len(filteredMaterials)
       THEN <<>>
       ELSE filteredIds
  /\ UNCHANGED <<allMaterials, filters, pageLoading, requests>>
  /\ UNCHANGED sessionVars

\* handleBulkAction up to `await axios.post('/admin/materials/bulk-actions')`;
\* a declined confirm() and an empty selection change nothing.
HandleBulkAction(action) ==
  /\ PageShown
  /\ Len(selectedMaterials) # 0
  /\ Cardinality(requests) < MaxRequests
  /\ pageLoading' = TRUE
  /\ requests' = requests \cup {Request("bulk", action, selectedMaterials)}
  /\ UNCHANGED <<allMaterials, filters, selectedMaterials>>
  /\ UNCHANGED sessionVars

\* onRefresh(): fetchDashboardData up to its `await Promise.all([...])`
Refresh == Request("refresh", "none", <<>>)

\* handleBulkAction from the answer of the POST to its end
BulkActionDone(r, ok) ==
  /\ r \in requests
  /\ r.kind = "bulk"
  /\ IF ok
     THEN /\ selectedMaterials' = <<>>
          /\ requests' = (requests \ {r}) \cup {Refresh}
     ELSE /\ requests' = requests \ {r}
          /\ UNCHANGED selectedMaterials
  /\ pageLoading' = FALSE
  /\ UNCHANGED <<allMaterials, filters>>
  /\ UNCHANGED sessionVars

\* handleUploadMaterial, handleUpdateMaterial and handleDeleteMaterial up to
\* their request: the upload modal of the header, and the buttons of a listed
\* material
HandleUploadMaterial ==
  /\ PageShown
  /\ Cardinality(requests) < MaxRequests
  /\ pageLoading' = TRUE
  /\ requests' = requests \cup {Request("upload", "none", <<>>)}
  /\ UNCHANGED <<allMaterials, filters, selectedMaterials>>
  /\ UNCHANGED sessionVars

HandleUpdateMaterial(materialId) ==
  /\ PageShown
  /\ ~pageLoading
  /\ arrayIncludes(filteredIds, materialId)
  /\ Cardinality(requests) < MaxRequests
  /\ pageLoading' = TRUE
  /\ requests' = requests \cup {Request("update", "none", <<materialId>>)}
  /\ UNCHANGED <<allMaterials, filters, selectedMaterials>>
  /\ UNCHANGED sessionVars

HandleDeleteMaterial(materialId) ==
  /\ PageShown
  /\ ~pageLoading
  /\ arrayIncludes(filteredIds, materialId)
  /\ Cardinality(requests) < MaxRequests
  /\ pageLoading' = TRUE
  /\ requests' = requests \cup {Request("delete", "none", <<materialId>>)}
  /\ UNCHANGED <<allMaterials, filters, selectedMaterials>>
  /\ UNCHANGED sessionVars

\* those three handlers from the answer of their request to their end
WriteDone(r, ok) ==
  /\ r \in requests
  /\ r.kind \in {"upload", "update", "delete"}
  /\ requests' = IF ok THEN (requests \ {r}) \cup {Refresh} ELSE requests \ {r}
  /\ pageLoading' = FALSE
  /\ UNCHANGED <<allMaterials, filters, selectedMaterials>>
  /\ UNCHANGED sessionVars

\* fetchDashboardData from the answer of its requests: setMaterials(data), or
\* the catch block
FetchDashboardDataDone(ok, data) ==
  /\ Refresh \in requests
  /\ requests' = requests \ {Refresh}
  /\ allMaterials' = IF ok THEN data ELSE allMaterials
  /\ UNCHANGED <<filters, selectedMaterials, pageLoading>>
  /\ UNCHANGED sessionVars

\* The materials page, opened in the dashboard of a restored admin session
\* once the dashboard's first fetch has been answered.
MatInit ==
  /\ \E t \in Tokens :
       /\ storage = [token |-> t, userType |-> "admin"]
       /\ bearer = t
       /\ user = Profile("admin", t)
       /\ startupTok = t
  /\ userType = "admin"
  /\ loading = FALSE
  /\ path = <<"/", "a", "d", "m", "i", "n">>
  /\ startup = "ready"
  /\ startupFailed = FALSE
  /\ calls = [c \in CallIds |-> IdleCall]
  /\ formLoading = FALSE
  /\ formError = ""
  /\ allMaterials \in MaterialLists
  /\ filters = DefaultFilters
  /\ selectedMaterials = <<>>
  /\ pageLoading = FALSE
  /\ requests = {}

MatNext ==
  \/ \E key \in FilterKeys : \E value \in FilterValues(key) :
       HandleFilterChange(key, value)
  \/ \E materialId \in MaterialIds : HandleMaterialSelect(materialId)
  \/ HandleSelectAll
  \/ \E action \in BulkActions : HandleBulkAction(action)
  \/ \E r \in requests, ok \in BOOLEAN : BulkActionDone(r, ok)
  \/ HandleUploadMaterial
  \/ \E materialId \in MaterialIds : HandleUpdateMaterial(materialId)
  \/ \E materialId \in MaterialIds : HandleDeleteMaterial(materialId)
  \/ \E r \in requests, ok \in BOOLEAN : WriteDone(r, ok)
  \/ \E ok \in BOOLEAN, data \in MaterialLists : FetchDashboardDataDone(ok, data)

MatSpec == MatInit /\ [][MatNext]_vars

\* ----------------------------------------------------------------- claims
Views == {"Loading"} \cup LoginViews \cup PortalViews
Anonymous ==
  /\ userType = NULL
  /\ user = NoUser
  /\ ~loading
ProfileFetchFails ==
  \/ \E k \in GetFailKinds : StartupFetchDone(k)
  \/ \E c \in CallIds, k \in GetFailKinds : LoginFetchDone(c, k)
ProfileFetchSettles ==
  \/ \E res \in GetResults : StartupFetchDone(res)
  \/ \E c \in CallIds, res \in GetResults : LoginFetchDone(c, res)
LoginOfArea == IF startsWith(path, AdminPrefix) THEN "AdminLogin" ELSE "ClientLogin"

\* C1: once the mount effect has run, in every reachable state the session
\* role (userType) is present exactly when a token is persisted, and exactly
\* when a bearer credential is attached.
C1_TokenIffRole ==
  startup # "unmounted" =>
    /\ (userType # NULL) <=> (storage.token # NoToken)
    /\ (userType # NULL) <=> (bearer # NoToken)

\* C2: every step in which a profile fetch fails (the startup one or the one
\* made by login) ends with the session anonymous (no role, no profile, not
\* loading), storage holding neither key and no bearer credential.
C2_FetchFailureDemotes ==
  [][ProfileFetchFails =>
        (Anonymous' /\ storage' = EmptyStorage /\ bearer' = NoToken)]_vars

\* C3: after the startup profile fetch has failed, and until a login request
\* is accepted, the router shows the login view of the requested area and
\* never a portal view.
C3_ExpiredTokenBackToLogin ==
  startupFailed => View = LoginOfArea

\* C4: the step in which logout runs ends with storage holding neither key,
\* no bearer credential, and the session anonymous with no profile, so that
\* the router shows a login view.
C4_LogoutClears ==
  [][Logout =>
        /\ storage' = EmptyStorage
        /\ bearer' = NoToken
        /\ Anonymous'
        /\ View' = LoginOfArea]_vars

\* a logout ran after a login request of this page load had been accepted
C4_Witness ==
  /\ \E c \in CallIds : calls[c].tok # NoToken
  /\ userType = NULL
  /\ storage = EmptyStorage
  /\ bearer = NoToken

\* C5: the router yields exactly one of the five views; when not loading, a
\* path with the /admin prefix yields AdminDashboard iff the role is admin and
\* AdminLogin otherwise, any other path yields ClientPortal iff the role is
\* client and ClientLogin otherwise.
C5_RouterTable ==
  LET adminArea == Len(path) >= 6 /\ SubSeq(path, 1, 6) = AdminPrefix IN
  /\ View \in Views
  /\ ~loading =>
       /\ adminArea =>
            View = (IF userType = "admin" THEN "AdminDashboard" ELSE "AdminLogin")
       /\ ~adminArea =>
            View = (IF userType = "client" THEN "ClientPortal" ELSE "ClientLogin")

\* a role mismatch in each area: client role on an /admin path, and admin role
\* on a path that only shares a shorter prefix with /admin
C5_Witness ==
  /\ ~loading
  /\ \/ userType = "client" /\ path = <<"/", "a", "d", "m", "i", "n", "/", "x">>
     \/ userType = "admin" /\ path = <<"/", "a", "d", "m">>
  /\ View \in LoginViews

\* C6: while the session is loading the router yields Loading whatever the
\* path and the role, and before the mount effect has run the view is Loading.
C6_LoadingFirst ==
  /\ loading => View = "Loading"
  /\ startup = "unmounted" => View = "Loading"

\* loading with a role already set that matches the requested area
C6_Witness ==
  /\ loading
  /\ startup = "fetching"
  /\ userType = (IF startsWith(path, AdminPrefix) THEN "admin" ELSE "client")

\* C7: no step of a login whose POST is rejected changes the session: entering
\* the handler, the seed request and the rejection itself all leave storage,
\* bearer, role, profile and loading as they were, and login returns false.
C7_FailedLoginFrame ==
  [][/\ (\/ HandleSubmit
         \/ HandleDemoLogin
         \/ \E c \in CallIds, ok \in BOOLEAN : SeedDone(c, ok))
        => UNCHANGED <<storage, bearer, userType, user, loading>>
     /\ \A c \in CallIds, k \in FailKinds :
          LoginPostFail(c, k) =>
            /\ UNCHANGED <<storage, bearer, userType, user, loading>>
            /\ calls'[c].ret = "false"]_vars

\* a login was rejected while storage, bearer, role and profile were all held
C7_Witness ==
  /\ \E c \in CallIds : calls[c].phase = "done" /\ calls[c].ret = "false"
  /\ storage.token # NoToken
  /\ bearer # NoToken
  /\ userType # NULL
  /\ user # NoUser

\* C8: when a login whose POST was accepted returns, it returns true, the
\* session role is the requested role and storage holds the returned token
\* together with that role.
C8_AcceptedLoginPersists ==
  [][\A c \in CallIds, res \in GetResults :
        LoginFetchDone(c, res) =>
          /\ calls'[c].ret = "true"
          /\ userType' = calls[c].type
          /\ storage' = [token |-> calls[c].tok, userType |-> calls[c].type]]_vars

\* C9: login never throws: a call that has returned gave true or false, a
\* call that has not returned gave nothing, and a failed login request gives
\* false.
C9_LoginNeverThrows ==
  /\ [](\A c \in CallIds :
          IF calls[c].phase = "done"
          THEN calls[c].ret \in {"true", "false"}
          ELSE calls[c].ret = "none")
  /\ [][\A c \in CallIds, k \in FailKinds :
          LoginPostFail(c, k) => calls'[c].ret = "false"]_vars

\* a demo login was rejected and its form shows the demo error
C9_Witness ==
  /\ \E c \in CallIds : calls[c].phase = "done" /\ calls[c].ret = "false"
  /\ \A c \in CallIds : calls[c].phase \in {"idle", "done"}
  /\ formError = "demo"
  /\ ~formLoading

\* C10: every step in which fetchUserProfile settles, with either outcome,
\* ends with loading cleared; and if requests are answered, a loading session
\* eventually stops loading.
C10_LoadingEnds ==
  /\ [][ProfileFetchSettles => ~loading']_vars
  /\ (loading ~> ~loading)

\* the startup profile fetch failed and loading is cleared
C10_Witness ==
  /\ startup = "ready"
  /\ startupTok # NoToken
  /\ startupFailed
  /\ ~loading

\* C11: a profile GET is only issued with the token active: in the step that
\* issues it, from the mount effect or from login, storage holds the token and
\* the role asked for, the header carries that token, and the request carries
\* that header.
C11_FetchAfterTokenActive ==
  [][/\ (startup = "unmounted" /\ startup' = "fetching") =>
          /\ storage'.token # NoToken
          /\ storage'.userType = userType'
          /\ userType' \in Roles
          /\ bearer' = storage'.token
          /\ startupTok' = storage'.token
     /\ \A c \in CallIds :
          (calls[c].phase = "post" /\ calls'[c].phase = "get") =>
            /\ calls'[c].tok # NoToken
            /\ storage' = [token |-> calls'[c].tok, userType |-> calls'[c].type]
            /\ userType' = calls'[c].type
            /\ bearer' = calls'[c].tok]_vars

\* an admin login has its profile GET in flight with a token other than the
\* one the startup fetch of this page load carried
C11_Witness ==
  /\ startupTok # NoToken
  /\ \E c \in CallIds :
       /\ calls[c].phase = "get"
       /\ calls[c].type = "admin"
       /\ calls[c].tok # startupTok
       /\ storage = [token |-> calls[c].tok, userType |-> "admin"]
       /\ bearer = calls[c].tok

\* C12: a profile that is present is the one fetched for the stored role with
\* the stored token; and once the mount effect has run, no state without a
\* stored token has a profile or a role.
C12_ProfileFollowsToken ==
  /\ user # NoUser => user = Profile(storage.userType, storage.token)
  /\ (startup # "unmounted" /\ storage.token = NoToken) =>
       (user = NoUser /\ userType = NULL)

\* C13: when login returns true, the profile is the backend's answer of the
\* requested role's endpoint for the token that is persisted and attached.
C13_ProfileMatchesLogin ==
  [][\A c \in CallIds :
        (calls[c].phase = "get" /\ calls'[c].ret = "true") =>
          /\ storage'.token # NoToken
          /\ bearer' = storage'.token
          /\ user' = Profile(calls[c].type, storage'.token)]_vars

PortalOf(role) == IF role = "admin" THEN "AdminDashboard" ELSE "ClientPortal"
InAreaOf(role) == startsWith(path, AdminPrefix) <=> (role = "admin")

Superseded(c) ==
  /\ calls[c].phase = "get"
  /\ storage.token # NoToken
  /\ storage.token # calls[c].tok

\* C15 as stated: the completion of an earlier login, whatever the outcome of
\* its profile fetch, neither clears nor replaces the credentials a later,
\* overlapping login has written.
C15_EarlierLoginKeepsLater ==
  [][\A c \in CallIds, res \in GetResults :
        (Superseded(c) /\ LoginFetchDone(c, res)) =>
          UNCHANGED <<storage, bearer>>]_vars

\* C15, amended: overlapping logins each return true; every accepted POST
\* overwrites the stored token and role and the header; when the earlier
\* login's profile fetch succeeds the later login's credentials stay, and when
\* it fails its catch block removes them: the last write, that removal
\* included, wins.
C15_LastWriteWins ==
  [][/\ \A c \in CallIds, t \in Tokens :
          LoginPostOk(c, t) =>
            (storage' = [token |-> t, userType |-> calls[c].type] /\ bearer' = t)
     /\ \A c \in CallIds, res \in GetResults :
          (Superseded(c) /\ LoginFetchDone(c, res)) =>
            /\ calls'[c].ret = "true"
            /\ IF res = "ok"
               THEN UNCHANGED <<storage, bearer>>
               ELSE storage' = EmptyStorage /\ bearer' = NoToken]_vars

\* the earlier login has returned and the later one, still fetching its
\* profile and holding the session role, has lost its stored token and header
C15_Witness ==
  \E c, d \in CallIds :
    /\ c # d
    /\ calls[c].phase = "done" /\ calls[c].ret = "true"
    /\ calls[d].phase = "get"
    /\ calls[d].tok # NoToken
    /\ userType = calls[d].type
    /\ storage = EmptyStorage
    /\ bearer = NoToken

\* C16: logout is idempotent: on every reachable session, applying logout
\* twice gives what applying it once gives; a logout step leaves the session
\* that logout computes, and a second logout right after it changes nothing
\* (storage, header, role, profile and loading alike).
C16_LogoutIdempotent ==
  /\ [](logoutState(logoutState(Session)) = logoutState(Session))
  /\ [][Logout =>
          /\ Session' = logoutState(Session)
          /\ logoutState(Session') = Session']_vars

\* a portal session in which logout has something to clear in every field
C16_Witness ==
  /\ View \in PortalViews
  /\ storage.token # NoToken
  /\ bearer # NoToken
  /\ user # NoUser
  /\ userType # NULL

\* C17: the two storage entries are paired in every reachable state: the token
\* key is present iff the role key is, and a present role key holds "client"
\* or "admin".
C17_StoragePaired ==
  /\ (storage.token # NoToken) <=> (storage.userType # NULL)
  /\ storage.userType # NULL => storage.userType \in {"client", "admin"}

\* both keys written by a login have been removed by its failed profile fetch
C17_Witness ==
  /\ \E c \in CallIds : calls[c].phase = "done" /\ calls[c].ret = "true"
  /\ \A c \in CallIds : calls[c].phase \in {"idle", "done"}
  /\ userType # NULL
  /\ storage = EmptyStorage

\* C18: the mount effect with a storage key missing goes straight to
\* not-loading: no request, no header, no role, storage untouched; and a
\* startup profile fetch starts only in the mount effect with both keys
\* present.
C18_NoCredentialsNoFetch ==
  [][/\ (Initialize /\ (storage.token = NoToken \/ storage.userType = NULL)) =>
          /\ ~loading'
          /\ startup' = "ready"
          /\ startupTok' = NoToken
          /\ bearer' = NoToken
          /\ userType' = NULL
          /\ user' = NoUser
          /\ UNCHANGED <<storage, calls>>
     /\ (startup # "fetching" /\ startup' = "fetching") =>
          /\ Initialize
          /\ storage.token # NoToken
          /\ storage.userType # NULL]_vars

\* the mount effect ran on empty storage: a login form, nothing in flight
C18_Witness ==
  /\ startup = "ready"
  /\ startupTok = NoToken
  /\ ~loading
  /\ userType = NULL
  /\ bearer = NoToken
  /\ \A c \in CallIds : calls[c] = IdleCall
  /\ View \in LoginViews

\* C19: logout issues no request and clears everything in one step: a logout
\* step leaves the requests in flight as they were and ends with storage,
\* header, profile and role all cleared, so that no later event sees a part
\* of it.
C19_LogoutSingleStep ==
  [][Logout =>
        /\ \A c \in CallIds :
             calls'[c].phase = calls[c].phase /\ calls'[c].tok = calls[c].tok
        /\ UNCHANGED <<startup, startupTok>>
        /\ storage' = EmptyStorage
        /\ bearer' = NoToken
        /\ user' = NoUser
        /\ userType' = NULL]_vars

\* logged out while the profile GET of a login is still in flight
C19_Witness ==
  /\ \E c \in CallIds : calls[c].phase = "get"
  /\ storage = EmptyStorage
  /\ bearer = NoToken
  /\ user = NoUser
  /\ userType = NULL

\* C20: the kind of failure cannot be told from its effects: a step in which
\* the login POST fails in one way is also the step of its failing in any
\* other way (same return value, same storage, header and session), and the
\* same for a failing profile GET, at startup and in login.
C20_FailureKindsAlike ==
  [][/\ \A c \in CallIds :
          calls[c].phase = "post" =>
            \A k1 \in FailKinds :
              LoginPostFail(c, k1) => \A k2 \in FailKinds : LoginPostFail(c, k2)
     /\ startup = "fetching" =>
          \A k1 \in GetFailKinds :
            StartupFetchDone(k1) => \A k2 \in GetFailKinds : StartupFetchDone(k2)
     /\ \A c \in CallIds :
          calls[c].phase = "get" =>
            \A k1 \in GetFailKinds :
              LoginFetchDone(c, k1) =>
                \A k2 \in GetFailKinds : LoginFetchDone(c, k2)]_vars

\* the startup profile fetch has failed and, later, so has a login
C20_Witness ==
  /\ startupFailed
  /\ \E c \in CallIds : calls[c].phase = "done" /\ calls[c].ret = "false"

\* a form handler that has not returned yet
InFlight(c) == calls[c].phase \in {"seed", "post", "get"}

\* C21: a failed demo seed is ignored: the step in which POST /seed completes
\* is the same step whether the seed succeeded or failed; it takes the demo
\* handler into login's POST with the role the handler was started with, it
\* neither sets nor clears the form's error message and leaves the form
\* loading; and the login POST of a demo handler is reached through that step
\* only, so it is made once per seed completion.
C21_SeedFailureIgnored ==
  [][/\ \A c \in CallIds :
          calls[c].phase = "seed" =>
            \A ok \in BOOLEAN :
              SeedDone(c, ok) =>
                /\ SeedDone(c, ~ok)
                /\ calls'[c].phase = "post"
                /\ calls'[c].type = calls[c].type
                /\ calls'[c].demo
                /\ formError' = formError
                /\ formLoading' = formLoading
     /\ \A c \in CallIds :
          (calls[c].phase # "post" /\ calls'[c].phase = "post"
             /\ calls'[c].demo) =>
            calls[c].phase = "seed"]_vars

\* the demo handler is past its seed request, in login's POST, and the message
\* of an earlier failed manual login is still shown
C21_Witness ==
  \E c \in CallIds :
    /\ calls[c].phase = "post"
    /\ calls[c].demo
    /\ calls[c].mounted
    /\ formError = "invalid"

\* C22: nothing times out.  While the startup GET is pending every step other
\* than its completion leaves the session loading and the router on Loading.
\* While a form's handler waits for its seed or login request the form is
\* loading, its buttons start no second handler, and every step other than
\* the completion of that request or a page load leaves it so.  And when
\* login returns to a form that is still displayed, the form stops loading;
\* a displayed form is loading only while its handler is in flight.
C22_NoTimeout ==
  [][/\ (startup = "fetching" /\ ~(\E res \in GetResults : StartupFetchDone(res)))
          => (loading' /\ View' = "Loading")
     /\ \A c \in CallIds :
          (calls[c].mounted /\ calls[c].phase \in {"seed", "post"}) =>
            /\ formLoading
            /\ ~HandleSubmit /\ ~HandleDemoLogin
            /\ \/ formLoading' /\ calls'[c].mounted /\ InFlight(c)'
               \/ \E ok \in BOOLEAN : SeedDone(c, ok)
               \/ \E t \in Tokens : LoginPostOk(c, t)
               \/ \E k \in FailKinds : LoginPostFail(c, k)
               \/ \E p \in Paths : PageLoad(p)
     /\ \A c \in CallIds :
          (calls[c].mounted /\ InFlight(c) /\ calls'[c].phase = "done") =>
            ~formLoading'
     /\ formLoading' => \E c \in CallIds : calls'[c].mounted /\ InFlight(c)']_vars

\* a demo handler is waiting for its seed request: the form is loading
C22_Witness ==
  /\ View \in LoginViews
  /\ formLoading
  /\ \E c \in CallIds : calls[c].phase = "seed" /\ calls[c].mounted

\* C23: login gives true only if its profile fetch succeeded: every step in
\* which a login call returns true is a step of a successful profile GET and
\* ends with the profile of that login's role and token in the session, the
\* token stored and attached as bearer credential.
C23_TrueOnlyAfterFetch ==
  [][\A c \in CallIds :
        (calls[c].phase = "get" /\ calls'[c].phase = "done"
           /\ calls'[c].ret = "true") =>
          /\ LoginFetchDone(c, "ok")
          /\ user' = Profile(calls[c].type, calls[c].tok)
          /\ storage'.token # NoToken
          /\ storage'.userType # NULL
          /\ bearer' # NoToken]_vars

\* the session right after logout: nothing in memory, in storage or attached
LoggedOut ==
  /\ user = NoUser
  /\ userType = NULL
  /\ storage = EmptyStorage
  /\ bearer = NoToken

\* C24: logout wins over a profile fetch in flight: when a login's profile
\* GET completes, with either outcome, in a session that logout has left
\* anonymous, the session is still anonymous afterwards: no profile, no role,
\* no stored token and no bearer credential.
C24_LogoutWins ==
  [][\A c \in CallIds, res \in GetResults :
        (LoggedOut /\ calls[c].phase = "get" /\ LoginFetchDone(c, res)) =>
          LoggedOut']_vars

\* C25: the displayed profile belongs to the session role: in every state in
\* which a portal view is selected and a profile is present, the profile is
\* the one the profile endpoint of the current role returned.
C25_ProfileOfCurrentRole ==
  (View \in PortalViews /\ user # NoUser) => user.role = userType

\* C26: the bearer credential mirrors storage: once the mount effect has run,
\* the HTTP client carries no bearer credential exactly when storage holds no
\* token, and otherwise carries the bearer for the stored token.
C26_BearerMirrorsStorage ==
  startup # "unmounted" => bearer = storage.token

\* the token restored at startup has been replaced by the token of a login,
\* and the client carries the new one
C26_Witness ==
  /\ startupTok # NoToken
  /\ storage.token # NoToken
  /\ storage.token # startupTok
  /\ bearer = storage.token

\* C27: within one page load the session's loading status never goes back to
\* true: every step from a state that is not loading, other than the start of
\* a new page load, ends not loading, so the router does not go back to the
\* Loading view.
C27_LoadingOnlyAtStartup ==
  [][(~loading /\ ~(\E p \in Paths : PageLoad(p))) =>
        (~loading' /\ View' # "Loading")]_vars

\* a login's profile fetch is in flight after a logout and the session is not
\* loading
C27_Witness ==
  /\ ~loading
  /\ userType = NULL
  /\ \E c \in CallIds : calls[c].phase = "get"

idsOf(arr) == {arr[i] : i \in 1..Len(arr)}

\* C29: a bulk action only targets materials the admin can see: in every
\* state of the materials page the selected ids, which are the material_ids
\* handleBulkAction sends, are ids of currently filtered materials.
C29_SelectionVisible ==
  PageShown => idsOf(selectedMaterials) \subseteq idsOf(filteredIds)

\* C30: select-all toggles between two selections: when exactly the filtered
\* materials are selected handleSelectAll empties the selection, otherwise it
\* makes the selection the filtered ids; and the select-all checkbox is
\* checked exactly when the selection is the non-empty set of filtered ids.
C30_SelectAllToggles ==
  [][/\ HandleSelectAll =>
          selectedMaterials' =
            IF idsOf(selectedMaterials) = idsOf(filteredIds)
            THEN <<>>
            ELSE filteredIds
     /\ selectAllChecked' <=>
          /\ idsOf(selectedMaterials') = idsOf(filteredIds')
          /\ idsOf(filteredIds') # {}]_vars

====
